---- MODULE Spec2Model ----
(***************************************************************************)
(* Event detection on edge time series (src/ev.py).                        *)
(*                                                                         *)
(* Arrays are functions over 0..len-1, so that positions, time indices and *)
(* trial indices are the numbers the Python source uses.  A matrix is a    *)
(* function from row index to a row.  Numbers are integers.  Three         *)
(* quantities of the source are reals and are held exactly as follows:     *)
(*   - an RSS value sqrt(s) is held as its radicand s (the sum of squares):*)
(*     sqrt is strictly increasing on s >= 0 and sqrt(0) = 0, so every     *)
(*     comparison, maximum and zero test of the source is unchanged;       *)
(*   - an empirical p-value is held as its numerator, the number of pooled *)
(*     null values >= the observed one; the denominator is t * numrand;    *)
(*   - a bin edge min + k*(max-min)/nbins, and the threshold taken from the *)
(*     edges, is held as ThrScale = 2*nbins times its value.               *)
(***************************************************************************)
EXTENDS Integers, Sequences, FiniteSets, TLC

VARIABLES
  pc,          \* position in event_detection / surrogates_to_array / threshold_ets_matrix
  err,         \* the exception that ended the run, or "none"
  surrprefix,  \* "" (circular shift), "surr_" (external surrogates), "AUC_" (AUC surrogates)
  segments,    \* the segments argument
  z_ts,        \* t x n matrix after line 73
  uv,          \* [u, v]: the edge index lists of calculate_ets
  ets,         \* t x E edge time series
  rss,         \* observed RSS (radicands)
  surr_ets,    \* per trial: the edge series of the AUC surrogate file (both readers derive it)
  status,      \* per trial: "pending", "done" or "failed"
  slot,        \* per trial: what rss_surr returned in that worker
  order,       \* trial indices in completion order
  results,     \* the list Parallel returned
  rssr,        \* t x numrand null RSS matrix
  hist_range,  \* <<hist_min, hist_max>>
  p,           \* numerators of the empirical p-values
  idx,         \* candidate time indices
  idxpeak,     \* the PeakSet
  etspeaks,    \* co-fluctuation at the peaks
  mu,          \* mean co-fluctuation over the peaks, as [num, den]
  percentile,  \* the percentile argument of surrogates_to_array
  hist,        \* per trial histogram of calculate_hist
  thr,         \* the threshold returned by surrogates_to_array (times ThrScale)
  selected,    \* the selected_idxs argument of threshold_ets_matrix
  ets_thr      \* the thresholded edge matrix, or None

vars == <<pc, err, surrprefix, segments, z_ts, uv, ets, rss, surr_ets, status, slot, order,
          results, rssr, hist_range, p, idx, idxpeak, etspeaks, mu, percentile,
          hist, thr, selected, ets_thr>>

----------------------------------------------------------------------------
(* Bounds of the model *)

\* shapes <<time points, nodes>> of the pipeline's input
Shapes == {<<1, 1>>, <<1, 2>>, <<2, 1>>, <<2, 2>>, <<1, 3>>}
\* largest number of time points of the series the detection steps are run on
MaxLen == 4
\* largest number of rows of the matrix threshold_ets_matrix is called with
MaxRows == 3
\* number of null-model trials (the source runs 100)
numrand == 2
\* number of histogram bins (the source uses 500)
nbins == 4

\* values of an entry of the observed series (finite)
Vals == {0, 1}

(* Program constants *)

\* pcrit = 0.001 = PcritNum / PcritDen
PcritNum == 1
PcritDen == 1000
\* the default percentile of surrogates_to_array
DefaultPercentile == 95
\* a not-a-number entry of a loaded surrogate, before np.nan_to_num
NaN == 99

\* entries of a series as the masker reads it from a file that may hold NaN
RawVals == {0, 1, NaN}

None == [none |-> TRUE]

----------------------------------------------------------------------------
(* Array helpers *)

Range(k) == 0 .. (k - 1)

Matrices(rows, cols, S) == [Range(rows) -> [Range(cols) -> S]]

RECURSIVE SumOver(_, _)
SumOver(f, D) ==
  IF D = {} THEN 0
  ELSE LET x == CHOOSE y \in D : TRUE IN f[x] + SumOver(f, D \ {x})

Abs(x) == IF x < 0 THEN -x ELSE x

SetMin(S) == CHOOSE x \in S : \A y \in S : x <= y
SetMax(S) == CHOOSE x \in S : \A y \in S : x >= y

\* np.nan_to_num on a matrix: NaN becomes 0
NanToNum(m) == [r \in DOMAIN m |-> [c \in DOMAIN m[r] |-> IF m[r][c] = NaN THEN 0 ELSE m[r][c]]]

----------------------------------------------------------------------------
(* calculate_ets *)

\* the strict upper triangle of an n x n matrix, as pairs
UpperPairs(n) == {q \in Range(n) \X Range(n) : q[1] < q[2]}

\* row-major rank of a pair among the pairs of the strict upper triangle
PairRank(n, q) ==
  Cardinality({r \in UpperPairs(n) : r[1] < q[1] \/ (r[1] = q[1] /\ r[2] < q[2])})

\* u, v = np.argwhere(np.triu(np.ones(n), 1)).T
EdgeIndex(n) ==
  LET E == Cardinality(UpperPairs(n))
      at(e) == CHOOSE q \in UpperPairs(n) : PairRank(n, q) = e
  IN [u |-> [e \in Range(E) |-> at(e)[1]], v |-> [e \in Range(E) |-> at(e)[2]]]

\* y[:, u] * y[:, v]
EdgeProducts(y, u, v) == [r \in DOMAIN y |-> [e \in DOMAIN u |-> y[r][u[e]] * y[r][v[e]]]]

calculate_ets(y, n) ==
  LET ix == EdgeIndex(n)
  IN [ets |-> EdgeProducts(y, ix.u, ix.v), u |-> ix.u, v |-> ix.v]

\* np.sqrt(np.sum(np.square(ets), axis=1)), as radicands
RssOf(e) == [r \in DOMAIN e |-> SumOver([c \in DOMAIN e[r] |-> e[r][c] * e[r][c]], DOMAIN e[r])]

\* all entries of a matrix
Entries(m) == UNION {{m[r][c] : c \in DOMAIN m[r]} : r \in DOMAIN m}
NRows(m) == Cardinality(DOMAIN m)
NCols(m) == IF DOMAIN m = {} THEN 0 ELSE Cardinality(DOMAIN m[0])

\* the elements of a set of integers in ascending order
SortedArr(S) == [k \in Range(Cardinality(S)) |-> CHOOSE x \in S : Cardinality({y \in S : y < x}) = k]

----------------------------------------------------------------------------
(* rss_surr *)

HasAUC(prefix) == prefix = "AUC_"

Raise(exc) == [ok |-> FALSE, exc |-> exc]

\* lines 43-45: np.roll of column c by shift[c]
RollColumns(z, shift) ==
  LET t == NRows(z)
  IN [r \in DOMAIN z |-> [c \in DOMAIN z[r] |-> z[(r - shift[c]) % t][c]]]

\* scipy.stats.zscore(m, ddof=1) by column, for at most two samples (every shape of
\* Shapes), in units of 1/sqrt(2): one sample, two equal samples or a NaN in the column
\* give NaN (0/0); two different samples give -1 and +1
Zscore(m) ==
  [r \in DOMAIN m |-> [c \in DOMAIN m[r] |->
     IF NRows(m) = 1 \/ (\E q \in DOMAIN m : m[q][c] = NaN) \/ m[0][c] = m[1][c]
     THEN NaN
     ELSE IF m[r][c] > m[1 - r][c] THEN 1 ELSE -1]]

\* lines 70-73 and 36-40: the series as the detection uses it
Standardise(raw, prefix) ==
  IF HasAUC(prefix) THEN NanToNum(raw) ELSE NanToNum(NanToNum(Zscore(raw)))

\* lines 32-45 when the load succeeds: every series zr the trial can work on
SurrSeries(z, prefix) ==
  IF prefix # ""
  THEN {Standardise(raw, prefix) : raw \in Matrices(NRows(z), NCols(z), RawVals)}
  ELSE {RollColumns(z, s) : s \in [Range(NCols(z)) -> Range(NRows(z))]}

\* lines 47-53 on the series zr; np.min of an empty array raises ValueError
rss_surr(zr, u, v) ==
  LET etsr == EdgeProducts(zr, u, v)
  IN IF Entries(etsr) = {}
     THEN Raise("ValueError")
     ELSE [ok |-> TRUE, rssr |-> RssOf(etsr), min |-> SetMin(Entries(etsr)),
           max |-> SetMax(Entries(etsr))]

----------------------------------------------------------------------------
(* joblib.Parallel as event_detection uses it *)

\* (a gather that waits only until no task is pending, and keeps a failed task's slot)
ParallelDoneLoose(st) == \A i \in DOMAIN st : st[i] # "pending"

\* Parallel returns its list only when every task has returned
ParallelDone(st) == \A i \in DOMAIN st : st[i] = "done"

\* (a gather that lists the outputs in completion order)
ResultsByCompletion(sl, ord) == [i \in DOMAIN sl |-> sl[ord[i + 1]]]

\* the list Parallel returns holds the outputs in the order of the inputs
ParallelResults(sl, ord) == [i \in DOMAIN sl |-> sl[i]]

\* lines 93-94
AssembleNull(res, t) == [r \in Range(t) |-> [i \in Range(numrand) |-> res[i].rssr[r]]]

\* (a fix-up of trial 0 alone: rssr[0, 0] = 0)
FixupTrialZero(m, prefix) ==
  IF HasAUC(prefix)
  THEN [r \in DOMAIN m |-> [i \in DOMAIN m[r] |-> IF r = 0 /\ i = 0 THEN 0 ELSE m[r][i]]]
  ELSE m

\* lines 97-98: rssr[0, :] = 0 in AUC mode
FixupNull(m, prefix) ==
  IF HasAUC(prefix)
  THEN [r \in DOMAIN m |-> IF r = 0 THEN [i \in DOMAIN m[r] |-> 0] ELSE m[r]]
  ELSE m

\* lines 99-105
HistRange(res) ==
  <<SetMin({res[i].min : i \in DOMAIN res}), SetMax({res[i].max : i \in DOMAIN res})>>

----------------------------------------------------------------------------
(* event detection, lines 107-138 *)

\* (a reference distribution per time point: only the null values of time i count)
PValuePerTime(m, obs, i) == NRows(m) * Cardinality({j \in Range(numrand) : m[i][j] >= obs[i]})

\* line 110, the numerator of np.mean(rssr_flat >= rss[i]): the pooled null values >= rss[i]
PValue(m, obs, i) ==
  Cardinality({q \in (DOMAIN m) \X Range(numrand) : m[q[1]][q[2]] >= obs[i]})

\* lines 107-110
PValues(m, obs) == [i \in DOMAIN obs |-> PValue(m, obs, i)]

\* idx = np.argwhere(p < pcrit)[:, 0]; p[i] = pv[i] / total
Candidates(pv, total) == SortedArr({i \in DOMAIN pv : pv[i] * PcritDen < PcritNum * total})

\* (the position is not subtracted)
DffNoOffset(ix) == [k \in DOMAIN ix |-> ix[k]]

\* dff = idx.T - range(len(idx))
Dff(ix) == [k \in DOMAIN ix |-> ix[k] - k]

\* np.unique: the distinct values, ascending
Unique(a) == SortedArr({a[k] : k \in DOMAIN a})

\* idx[dff.T == val]: the members selected by the mask, in order
EventMembers(ix, d, val) ==
  LET K == {k \in DOMAIN ix : d[k] = val}
  IN [j \in Range(Cardinality(K)) |-> ix[CHOOSE k \in K : Cardinality({l \in K : l < k}) = j]]

\* np.argmax: the first position of the maximum
ArgMax(a) == CHOOSE k \in DOMAIN a : (\A l \in DOMAIN a : a[l] <= a[k]) /\ (\A l \in DOMAIN a : l < k => a[l] < a[k])

\* the events of lines 118-125, one array of member indices per unique difference
Events(ix) ==
  LET d == Dff(ix)
      unq == Unique(d)
  IN [e \in DOMAIN unq |-> EventMembers(ix, d, unq[e])]

\* (at least one event is always looked at, also when there is no candidate)
FindPeaksOneEvent(ix, obs, seg) ==
  IF ~seg
  THEN [ok |-> TRUE, peaks |-> ix]
  ELSE IF DOMAIN ix = {}
       THEN Raise("ValueError")
       ELSE LET ev == Events(ix)
            IN [ok |-> TRUE,
                peaks |-> [e \in DOMAIN ev |->
                             ev[e][ArgMax([j \in DOMAIN ev[e] |-> obs[ev[e][j]]])]]]

\* lines 116-132: the PeakSet, or the ValueError np.argmax raises on an empty event
FindPeaks(ix, obs, seg) ==
  IF ~seg
  THEN [ok |-> TRUE, peaks |-> ix]
  ELSE LET ev == Events(ix)
       IN IF \E e \in DOMAIN ev : DOMAIN ev[e] = {}
          THEN Raise("ValueError")
          ELSE [ok |-> TRUE,
                peaks |-> [e \in DOMAIN ev |->
                             ev[e][ArgMax([j \in DOMAIN ev[e] |-> obs[ev[e][j]]])]]]

\* lines 133-136
PeakEts(z, peaks, u, v) == EdgeProducts([k \in DOMAIN peaks |-> z[peaks[k]]], u, v)

\* line 138: np.nanmean over the peaks, as sum / count (0 / 0 is NaN)
NanMean(ep, nedges) ==
  [e \in Range(nedges) |-> [num |-> SumOver([k \in DOMAIN ep |-> ep[k][e]], DOMAIN ep),
                            den |-> Cardinality(DOMAIN ep)]]

----------------------------------------------------------------------------
(* calculate_hist, surrogates_to_array, threshold_ets_matrix *)

\* a value x is held as ThrScale * x wherever bin edges are compared
ThrScale == 2 * nbins

\* np.histogram's bin edges over range rg (a range of width 0 is widened by 0.5
\* on each side), times ThrScale
BinEdges(rg) ==
  IF rg[1] = rg[2]
  THEN [k \in 0 .. nbins |-> nbins * (2 * rg[1] - 1) + 2 * k]
  ELSE [k \in 0 .. nbins |-> ThrScale * rg[1] + 2 * k * (rg[2] - rg[1])]

\* the bin of x: bins are half open, the last one closed
BinOf(x, rg) ==
  LET lo2 == IF rg[1] = rg[2] THEN 2 * rg[1] - 1 ELSE 2 * rg[1]
      w2 == IF rg[1] = rg[2] THEN 2 ELSE 2 * (rg[2] - rg[1])
      b == ((2 * x - lo2) * nbins) \div w2
  IN IF b = nbins THEN nbins - 1 ELSE b

\* lines 178-184: the counts of the edge values of one surrogate within the range
calculate_hist(se, rg) ==
  LET lo2 == IF rg[1] = rg[2] THEN 2 * rg[1] - 1 ELSE 2 * rg[1]
      hi2 == IF rg[1] = rg[2] THEN 2 * rg[1] + 1 ELSE 2 * rg[2]
      cells == {q \in (DOMAIN se) \X Range(NCols(se)) :
                  2 * se[q[1]][q[2]] >= lo2 /\ 2 * se[q[1]][q[2]] <= hi2}
  IN [b \in Range(nbins) |-> Cardinality({q \in cells : BinOf(se[q[1]][q[2]], rg) = b})]

\* line 206
HistSum(h) == [b \in Range(nbins) |-> SumOver([i \in DOMAIN h |-> h[i][b]], DOMAIN h)]

\* np.cumsum
CumSum(a) == [b \in DOMAIN a |-> SumOver(a, {j \in DOMAIN a : j <= b})]

\* line 208: the number of bins with cumsum / total * 100 <= pct; with no mass the
\* quotient is NaN and no bin counts
BinsUpTo(h, pct) ==
  LET cum == CumSum(HistSum(h))
      total == SumOver(HistSum(h), Range(nbins))
  IN Cardinality({b \in Range(nbins) : total > 0 /\ cum[b] * 100 <= pct * total})

\* lines 204-210
PoolThreshold(h, rg, pct) == BinEdges(rg)[BinsUpTo(h, pct)]

\* lines 194-210 with the surrogates' edge series se
surrogates_to_array(se, rg, pct) ==
  PoolThreshold([i \in DOMAIN se |-> calculate_hist(se[i], rg)], rg, pct)

\* (the result starts as a copy of the matrix, not as zeros)
ThresholdNoZeroInit(m, sel, th) ==
  [r \in DOMAIN m |-> [e \in DOMAIN m[r] |-> IF ThrScale * m[r][e] < th THEN 0 ELSE m[r][e]]]

\* lines 163-171; th is ThrScale times the threshold
threshold_ets_matrix(m, sel, th) ==
  LET zeros == [r \in DOMAIN m |-> [e \in DOMAIN m[r] |-> 0]]
      rows == {sel[k] : k \in DOMAIN sel}
      picked == [r \in DOMAIN m |-> IF r \in rows THEN m[r] ELSE zeros[r]]
  IN [r \in DOMAIN m |-> [e \in DOMAIN m[r] |->
        IF ThrScale * picked[r][e] < th THEN 0 ELSE picked[r][e]]]
----------------------------------------------------------------------------
(* event_detection *)

t == NRows(z_ts)
n == NCols(z_ts)

NoArray == << >>

Init ==
  /\ pc = "load"
  /\ err = "none"
  /\ surrprefix \in {"", "surr_", "AUC_"}
  /\ segments \in BOOLEAN
  /\ z_ts = NoArray
  /\ uv = [u |-> NoArray, v |-> NoArray]
  /\ ets = NoArray
  /\ rss = NoArray
  /\ surr_ets = [i \in Range(numrand) |-> None]
  /\ status = [i \in Range(numrand) |-> "pending"]
  /\ slot = [i \in Range(numrand) |-> None]
  /\ order = << >>
  /\ results = NoArray
  /\ rssr = NoArray
  /\ hist_range = <<0, 0>>
  /\ p = NoArray
  /\ idx = NoArray
  /\ idxpeak = NoArray
  /\ etspeaks = NoArray
  /\ mu = NoArray
  /\ percentile = DefaultPercentile
  /\ hist = NoArray
  /\ thr = 0
  /\ selected = NoArray
  /\ ets_thr = None

\* lines 60-75: the series is read and, outside AUC mode, z-scored and cleaned
LoadData ==
  /\ pc = "load"
  /\ \E sh \in Shapes :
       \E data \in Matrices(sh[1], sh[2], IF HasAUC(surrprefix) THEN Vals ELSE RawVals) :
         z_ts' = IF HasAUC(surrprefix) THEN data ELSE NanToNum(Zscore(data))
  /\ pc' = "ets"
  /\ UNCHANGED <<err, surrprefix, segments, uv, ets, rss, surr_ets, status, slot, order,
                 results, rssr, hist_range, p, idx, idxpeak, etspeaks, mu, percentile,
                 hist, thr, selected, ets_thr>>

\* lines 77-86
ComputeObserved ==
  /\ pc = "ets"
  /\ LET ce == calculate_ets(z_ts, n)
     IN /\ uv' = [u |-> ce.u, v |-> ce.v]
        /\ ets' = ce.ets
        /\ rss' = RssOf(ce.ets)
  /\ rssr' = [r \in Range(t) |-> [i \in Range(numrand) |-> 0]]
  /\ pc' = "parallel"
  /\ UNCHANGED <<err, surrprefix, segments, z_ts, surr_ets, status, slot, order, results,
                 hist_range, p, idx, idxpeak, etspeaks, mu, percentile, hist, thr,
                 selected, ets_thr>>

\* line 35 in the worker of trial i: the surrogate cannot be loaded
TrialLoadFails(i) ==
  /\ pc = "parallel"
  /\ status[i] = "pending"
  /\ surrprefix # ""
  /\ status' = [status EXCEPT ![i] = "failed"]
  /\ slot' = [slot EXCEPT ![i] = Raise("LoadError")]
  /\ UNCHANGED <<pc, err, surrprefix, segments, z_ts, uv, ets, rss, surr_ets, order,
                 results, rssr, hist_range, p, idx, idxpeak, etspeaks, mu, percentile,
                 hist, thr, selected, ets_thr>>

\* lines 28-53 in the worker of trial i
TrialRuns(i) ==
  /\ pc = "parallel"
  /\ status[i] = "pending"
  /\ \E zr \in SurrSeries(z_ts, surrprefix) :
       LET out == rss_surr(zr, uv.u, uv.v)
       IN /\ slot' = [slot EXCEPT ![i] = out]
          /\ status' = [status EXCEPT ![i] = IF out.ok THEN "done" ELSE "failed"]
          /\ order' = IF out.ok THEN Append(order, i) ELSE order
          /\ surr_ets' = IF out.ok /\ HasAUC(surrprefix)
                         THEN [surr_ets EXCEPT ![i] = EdgeProducts(zr, uv.u, uv.v)]
                         ELSE surr_ets
  /\ UNCHANGED <<pc, err, surrprefix, segments, z_ts, uv, ets, rss, results, rssr,
                 hist_range, p, idx, idxpeak, etspeaks, mu, percentile, hist, thr,
                 selected, ets_thr>>

\* lines 88-91: the exception of a failed task is raised in event_detection
ParallelRaises ==
  /\ pc = "parallel"
  /\ \E i \in Range(numrand) : status[i] = "failed" /\ err' = slot[i].exc
  /\ pc' = "error"
  /\ UNCHANGED <<surrprefix, segments, z_ts, uv, ets, rss, surr_ets, status, slot, order,
                 results, rssr, hist_range, p, idx, idxpeak, etspeaks, mu, percentile,
                 hist, thr, selected, ets_thr>>

\* lines 88-91: Parallel returns the list of results
ParallelReturns ==
  /\ pc = "parallel"
  /\ ParallelDone(status)
  /\ results' = ParallelResults(slot, order)
  /\ pc' = "assemble"
  /\ UNCHANGED <<err, surrprefix, segments, z_ts, uv, ets, rss, surr_ets, status, slot,
                 order, rssr, hist_range, p, idx, idxpeak, etspeaks, mu, percentile, hist,
                 thr, selected, ets_thr>>

\* lines 93-94
Assemble ==
  /\ pc = "assemble"
  /\ rssr' = AssembleNull(results, t)
  /\ pc' = "fixup"
  /\ UNCHANGED <<err, surrprefix, segments, z_ts, uv, ets, rss, surr_ets, status, slot,
                 order, results, hist_range, p, idx, idxpeak, etspeaks, mu, percentile,
                 hist, thr, selected, ets_thr>>

\* lines 96-105
NullFixup ==
  /\ pc = "fixup"
  /\ rssr' = FixupNull(rssr, surrprefix)
  /\ hist_range' = IF HasAUC(surrprefix) THEN HistRange(results) ELSE hist_range
  /\ pc' = "pvalue"
  /\ UNCHANGED <<err, surrprefix, segments, z_ts, uv, ets, rss, surr_ets, status, slot,
                 order, results, p, idx, idxpeak, etspeaks, mu, percentile, hist, thr,
                 selected, ets_thr>>

\* lines 107-110
ComputeP ==
  /\ pc = "pvalue"
  /\ p' = PValues(rssr, rss)
  /\ pc' = "cutoff"
  /\ UNCHANGED <<err, surrprefix, segments, z_ts, uv, ets, rss, surr_ets, status, slot,
                 order, results, rssr, hist_range, idx, idxpeak, etspeaks, mu, percentile,
                 hist, thr, selected, ets_thr>>

\* lines 111-115
Cutoff ==
  /\ pc = "cutoff"
  /\ idx' = Candidates(p, t * numrand)
  /\ pc' = "peaks"
  /\ UNCHANGED <<err, surrprefix, segments, z_ts, uv, ets, rss, surr_ets, status, slot,
                 order, results, rssr, hist_range, p, idxpeak, etspeaks, mu, percentile,
                 hist, thr, selected, ets_thr>>

\* lines 116-132
Peaks ==
  /\ pc = "peaks"
  /\ LET r == FindPeaks(idx, rss, segments)
     IN IF r.ok
        THEN idxpeak' = r.peaks /\ pc' = "activity" /\ err' = err
        ELSE idxpeak' = idxpeak /\ pc' = "error" /\ err' = r.exc
  /\ UNCHANGED <<surrprefix, segments, z_ts, uv, ets, rss, surr_ets, status, slot, order,
                 results, rssr, hist_range, p, idx, etspeaks, mu, percentile, hist, thr,
                 selected, ets_thr>>

\* lines 133-138
PeakActivity ==
  /\ pc = "activity"
  /\ etspeaks' = PeakEts(z_ts, idxpeak, uv.u, uv.v)
  /\ mu' = NanMean(etspeaks', Cardinality(DOMAIN uv.u))
  /\ pc' = "threshold"
  /\ UNCHANGED <<err, surrprefix, segments, z_ts, uv, ets, rss, surr_ets, status, slot,
                 order, results, rssr, hist_range, p, idx, idxpeak, percentile, hist, thr,
                 selected, ets_thr>>

\* lines 140-151
Threshold ==
  /\ pc = "threshold"
  /\ IF HasAUC(surrprefix)
     THEN /\ thr' = surrogates_to_array(surr_ets, hist_range, DefaultPercentile)
          /\ ets_thr' = threshold_ets_matrix(ets, idxpeak, thr')
     ELSE /\ thr' = thr
          /\ ets_thr' = None
  /\ pc' = "return"
  /\ UNCHANGED <<err, surrprefix, segments, z_ts, uv, ets, rss, surr_ets, status, slot,
                 order, results, rssr, hist_range, p, idx, idxpeak, etspeaks, mu,
                 percentile, hist, selected>>

\* line 153
Return ==
  /\ pc = "return"
  /\ pc' = "done"
  /\ UNCHANGED <<err, surrprefix, segments, z_ts, uv, ets, rss, surr_ets, status, slot,
                 order, results, rssr, hist_range, p, idx, idxpeak, etspeaks, mu,
                 percentile, hist, thr, selected, ets_thr>>

Next ==
  \/ LoadData
  \/ ComputeObserved
  \/ \E i \in Range(numrand) : TrialLoadFails(i)
  \/ \E i \in Range(numrand) : TrialRuns(i)
  \/ ParallelRaises
  \/ ParallelReturns
  \/ Assemble
  \/ NullFixup
  \/ ComputeP
  \/ Cutoff
  \/ Peaks
  \/ PeakActivity
  \/ Threshold
  \/ Return

Spec == Init /\ [][Next]_vars
----------------------------------------------------------------------------
(* The detection steps (lines 107-153) on longer series: the state after line 105 *)
(* of an AUC run over two nodes whose surrogates are constant in time.           *)

\* values of the second node (the first is 1), and of a surrogate's edge
Roots == {0, 1, 2}

InitDetect ==
  /\ pc = "pvalue"
  /\ err = "none"
  /\ surrprefix = "AUC_"
  /\ segments \in BOOLEAN
  /\ \E T \in 1 .. MaxLen : z_ts \in {[r \in Range(T) |-> [c \in Range(2) |-> IF c = 0 THEN 1 ELSE y[r]]] :
                                         y \in [Range(T) -> Roots]}
  /\ uv = [u |-> calculate_ets(z_ts, 2).u, v |-> calculate_ets(z_ts, 2).v]
  /\ ets = calculate_ets(z_ts, 2).ets
  /\ rss = RssOf(ets)
  /\ surr_ets \in {[i \in Range(numrand) |-> [r \in DOMAIN z_ts |-> [e \in Range(1) |-> c[i]]]] :
                     c \in [Range(numrand) -> Roots]}
  /\ status = [i \in Range(numrand) |-> "done"]
  /\ slot = [i \in Range(numrand) |->
               [ok |-> TRUE, rssr |-> RssOf(surr_ets[i]), min |-> SetMin(Entries(surr_ets[i])),
                max |-> SetMax(Entries(surr_ets[i]))]]
  /\ order = [k \in 1 .. numrand |-> k - 1]
  /\ results = ParallelResults(slot, order)
  /\ rssr = FixupNull(AssembleNull(results, NRows(z_ts)), surrprefix)
  /\ hist_range = HistRange(results)
  /\ p = NoArray
  /\ idx = NoArray
  /\ idxpeak = NoArray
  /\ etspeaks = NoArray
  /\ mu = NoArray
  /\ percentile = DefaultPercentile
  /\ hist = NoArray
  /\ thr = 0
  /\ selected = NoArray
  /\ ets_thr = None

NextDetect == ComputeP \/ Cutoff \/ Peaks \/ PeakActivity \/ Threshold \/ Return

SpecDetect == InitDetect /\ [][NextDetect]_vars

----------------------------------------------------------------------------
(* surrogates_to_array from line 204 on, for any per-trial histograms *)

HistCounts == {0, 1}
HistRanges == {<<0, 100>>, <<-1, 1>>}
Percentiles == {50, 95, 100}

InitHist ==
  /\ pc = "hist_pool"
  /\ err = "none"
  /\ surrprefix = "AUC_"
  /\ segments = TRUE
  /\ z_ts = NoArray
  /\ uv = [u |-> NoArray, v |-> NoArray]
  /\ ets = NoArray
  /\ rss = NoArray
  /\ surr_ets = [i \in Range(numrand) |-> None]
  /\ status = [i \in Range(numrand) |-> "pending"]
  /\ slot = [i \in Range(numrand) |-> None]
  /\ order = << >>
  /\ results = NoArray
  /\ rssr = NoArray
  /\ hist_range \in HistRanges
  /\ p = NoArray
  /\ idx = NoArray
  /\ idxpeak = NoArray
  /\ etspeaks = NoArray
  /\ mu = NoArray
  /\ percentile \in Percentiles
  /\ hist \in [Range(numrand) -> [Range(nbins) -> HistCounts]]
  /\ thr = 0
  /\ selected = NoArray
  /\ ets_thr = None

\* lines 204-210
HistThreshold ==
  /\ pc = "hist_pool"
  /\ thr' = PoolThreshold(hist, hist_range, percentile)
  /\ pc' = "hist_done"
  /\ UNCHANGED <<err, surrprefix, segments, z_ts, uv, ets, rss, surr_ets, status, slot,
                 order, results, rssr, hist_range, p, idx, idxpeak, etspeaks, mu,
                 percentile, hist, selected, ets_thr>>

NextHist == HistThreshold

SpecHist == InitHist /\ [][NextHist]_vars

----------------------------------------------------------------------------
(* threshold_ets_matrix for any edge matrix, selection and threshold *)

EdgeVals == {-1, 0, 1}
EdgeCounts == {1, 2}
\* thresholds -1, -1/ThrScale, 0, 1/ThrScale and 1, times ThrScale
Thresholds == {-ThrScale, -1, 0, 1, ThrScale}

InitThr ==
  /\ pc = "thr_call"
  /\ err = "none"
  /\ surrprefix = "AUC_"
  /\ segments = TRUE
  /\ z_ts = NoArray
  /\ uv = [u |-> NoArray, v |-> NoArray]
  /\ \E T \in 1 .. MaxRows, E \in EdgeCounts :
       /\ ets \in Matrices(T, E, EdgeVals)
       /\ selected \in {SortedArr(S) : S \in SUBSET Range(T)}
  /\ rss = NoArray
  /\ surr_ets = [i \in Range(numrand) |-> None]
  /\ status = [i \in Range(numrand) |-> "pending"]
  /\ slot = [i \in Range(numrand) |-> None]
  /\ order = << >>
  /\ results = NoArray
  /\ rssr = NoArray
  /\ hist_range = <<0, 0>>
  /\ p = NoArray
  /\ idx = NoArray
  /\ idxpeak = NoArray
  /\ etspeaks = NoArray
  /\ mu = NoArray
  /\ percentile = DefaultPercentile
  /\ hist = NoArray
  /\ thr \in Thresholds
  /\ ets_thr = None

\* lines 156-171
ThresholdCall ==
  /\ pc = "thr_call"
  /\ ets_thr' = threshold_ets_matrix(ets, selected, thr)
  /\ pc' = "thr_done"
  /\ UNCHANGED <<err, surrprefix, segments, z_ts, uv, ets, rss, surr_ets, status, slot,
                 order, results, rssr, hist_range, p, idx, idxpeak, etspeaks, mu,
                 percentile, hist, thr, selected>>

NextThr == ThresholdCall

SpecThr == InitThr /\ [][NextThr]_vars
----------------------------------------------------------------------------
(* Properties *)

AfterAssemble == {"fixup", "pvalue", "cutoff", "peaks", "activity", "threshold", "return", "done"}
AfterFixup == AfterAssemble \ {"fixup"}
AfterP == AfterFixup \ {"pvalue"}
AfterCutoff == AfterP \ {"cutoff"}
AfterPeaks == AfterCutoff \ {"peaks"}
AfterActivity == AfterPeaks \ {"activity"}
AfterThreshold == {"return", "done"}

Rows(sel) == {sel[k] : k \in DOMAIN sel}

\* C1: the matrix threshold_ets_matrix returns is zero in every row whose time index
\* is not selected, whatever the matrix, the selection and the threshold.
C1_NonPeakRowsZero ==
  pc = "thr_done" =>
    \A r \in DOMAIN ets_thr : r \notin Rows(selected) =>
      \A e \in DOMAIN ets_thr[r] : ets_thr[r][e] = 0

\* C1 happens: a negative threshold, a selected row, and an unselected row that holds
\* an entry above the threshold in the edge matrix.
C1_Witness ==
  /\ pc = "thr_done"
  /\ thr < 0
  /\ Rows(selected) # {}
  /\ \E r \in DOMAIN ets : r \notin Rows(selected) /\ \E e \in DOMAIN ets[r] : ets[r][e] = 1

\* the maximal runs of consecutive integers of ix, found by comparing each index with
\* the one before it: position k, the run so far, the runs closed so far
RECURSIVE ScanRuns(_, _, _, _)
ScanRuns(ix, k, cur, acc) ==
  IF k = Cardinality(DOMAIN ix)
  THEN IF cur = << >> THEN acc ELSE Append(acc, cur)
  ELSE IF cur # << >> /\ ix[k] = cur[Len(cur)] + 1
       THEN ScanRuns(ix, k + 1, Append(cur, ix[k]), acc)
       ELSE ScanRuns(ix, k + 1, <<ix[k]>>, IF cur = << >> THEN acc ELSE Append(acc, cur))

StrictlyAscending(a) == \A k, l \in DOMAIN a : k < l => a[k] < a[l]

\* C2: with segmentation, the candidates are strictly ascending, grouping them by equal
\* idx[k] - k gives the runs the explicit scan gives, in the same order, and the
\* PeakSet holds for each run one member of it with the maximal RSS of the run,
\* in ascending order.
C2_SegmentsAreRuns ==
  (pc \in AfterPeaks /\ segments) =>
    LET ev == Events(idx)
        runs == ScanRuns(idx, 0, << >>, << >>)
    IN /\ StrictlyAscending(idx)
       /\ Cardinality(DOMAIN ev) = Len(runs)
       /\ \A e \in DOMAIN ev :
            /\ Cardinality(DOMAIN ev[e]) = Len(runs[e + 1])
            /\ \A j \in DOMAIN ev[e] : ev[e][j] = runs[e + 1][j + 1]
       /\ DOMAIN idxpeak = Range(Len(runs))
       /\ \A e \in DOMAIN idxpeak :
            /\ \E j \in 1 .. Len(runs[e + 1]) : runs[e + 1][j] = idxpeak[e]
            /\ \A j \in 1 .. Len(runs[e + 1]) : rss[runs[e + 1][j]] <= rss[idxpeak[e]]
       /\ StrictlyAscending(idxpeak)

\* C2 happens: two runs, one of them longer than one index with its peak not at its start.
C2_Witness ==
  /\ pc = "activity"
  /\ segments
  /\ Len(ScanRuns(idx, 0, << >>, << >>)) = 2
  /\ \E e \in DOMAIN idxpeak :
       LET run == ScanRuns(idx, 0, << >>, << >>)[e + 1]
       IN Len(run) >= 2 /\ idxpeak[e] # run[1]

\* C3: the empirical p-value does not increase with the observed RSS.
C3_PValueMonotone ==
  pc \in AfterP =>
    \A t1, t2 \in DOMAIN rss : rss[t1] >= rss[t2] => p[t1] <= p[t2]

\* C3 happens: two time points with different RSS and different p-values.
C3_Witness ==
  /\ pc = "cutoff"
  /\ \E t1, t2 \in DOMAIN rss : rss[t1] > rss[t2] /\ p[t1] < p[t2]

HistTotal == SumOver(HistSum(hist), Range(nbins))
HistCum == CumSum(HistSum(hist))
Exceeds(b) == HistCum[b] * 100 > percentile * HistTotal
Uniform == \A b, c \in Range(nbins) : HistSum(hist)[b] = HistSum(hist)[c]

\* C4: for a pooled histogram with mass, the returned threshold is the edge at index k,
\* the number of bins with cumulative percentage <= the percentile, and that edge is
\* the lower edge of the first bin whose cumulative percentage exceeds the percentile;
\* for a uniform histogram over [0, 100] and percentile 50 it is within one bin width
\* of 50.
C4_LowerEdgeOfFirstExceeding ==
  (pc = "hist_done" /\ HistTotal > 0) =>
    LET k == BinsUpTo(hist, percentile)
    IN /\ thr = BinEdges(hist_range)[k]
       /\ k \in Range(nbins)
       /\ Exceeds(k)
       /\ \A b \in Range(nbins) : b < k => ~Exceeds(b)
       /\ (Uniform /\ hist_range = <<0, 100>> /\ percentile = 50) =>
            Abs(thr - 50 * ThrScale) * nbins <= 100 * ThrScale

\* C4 where some bin exceeds the percentile (always so below 100): the returned
\* threshold is the lower edge of the first such bin.
C4_BelowFullMass ==
  (pc = "hist_done" /\ HistTotal > 0 /\ percentile < 100) =>
    LET k == BinsUpTo(hist, percentile)
    IN /\ thr = BinEdges(hist_range)[k]
       /\ k \in Range(nbins)
       /\ Exceeds(k)
       /\ \A b \in Range(nbins) : b < k => ~Exceeds(b)
       /\ (Uniform /\ hist_range = <<0, 100>> /\ percentile = 50) =>
            Abs(thr - 50 * ThrScale) * nbins <= 100 * ThrScale

\* C5: once a null-model trial has failed, event_detection is in the parallel call or
\* has ended with that error: the call cannot return, the error can be raised, and no
\* step after the call has run (the null matrix is still the zeros of line 86).
C5_FailedTrialAborts ==
  (\E i \in Range(numrand) : status[i] = "failed") =>
    /\ pc \in {"parallel", "error"}
    /\ pc = "parallel" => ~ParallelDone(status) /\ ENABLED ParallelRaises
    /\ pc = "error" => err \in {"LoadError", "ValueError"}
    /\ results = NoArray
    /\ \A r \in DOMAIN rssr : \A i \in DOMAIN rssr[r] : rssr[r][i] = 0
    /\ DOMAIN p = {} /\ DOMAIN idx = {} /\ DOMAIN idxpeak = {}

\* C5 happens: a surrogate could not be loaded, another trial completed, and the run
\* has ended with the load error.
C5_Witness ==
  /\ pc = "error"
  /\ err = "LoadError"
  /\ \E i, j \in Range(numrand) : status[i] = "failed" /\ status[j] = "done"

\* C6: after the assembly, column i of the null matrix is the RSS vector trial i
\* returned, whatever the completion order (the AUC fix-up later rewrites row 0 only).
C6_ColumnIsTrial ==
  pc \in AfterAssemble =>
    /\ \A i \in Range(numrand) : results[i] = slot[i]
    /\ \A r \in DOMAIN rssr : \A i \in Range(numrand) :
         (pc = "fixup" \/ ~HasAUC(surrprefix) \/ r # 0) => rssr[r][i] = slot[i].rssr[r]

\* C6 happens: the trials completed in another order than their indices and returned
\* different vectors.
C6_Witness ==
  /\ pc = "fixup"
  /\ order[1] # 0
  /\ \E i, j \in Range(numrand) : slot[i].rssr # slot[j].rssr

\* C7: when the cumulative percentage of every bin is <= the percentile, the
\* thresholding ends with ThresholdOutOfRange instead of returning a value.
C7_OutOfRangeSignalled ==
  (pc = "hist_done" /\ HistTotal > 0 /\ BinsUpTo(hist, percentile) = nbins) =>
    err = "ThresholdOutOfRange"

\* C8: with fewer than 2 time points or fewer than 2 nodes, event detection ends with
\* InvalidInputShape before edge series, RSS, null trials or peaks are computed.
C8_FailsFast ==
  (pc # "load" /\ (t < 2 \/ n < 2)) =>
    /\ pc \in {"ets", "error"}
    /\ pc = "error" => err = "InvalidInputShape"
    /\ DOMAIN ets = {} /\ DOMAIN rss = {}
    /\ \A i \in Range(numrand) : status[i] = "pending"

\* C9 as stated: in AUC mode the fix-up zeroes the time-0 value of trial 0 and leaves
\* every other entry as its trial computed it; outside AUC mode nothing is altered.
C9_OnlyTrialZero ==
  pc \in AfterFixup =>
    \A r \in DOMAIN rssr : \A i \in Range(numrand) :
      IF HasAUC(surrprefix) /\ r = 0 /\ i = 0
      THEN rssr[r][i] = 0
      ELSE rssr[r][i] = slot[i].rssr[r]

\* C9 as amended: in AUC mode the fix-up zeroes the time-0 value of every trial and
\* leaves every entry at a later time as its trial computed it; outside AUC mode
\* nothing is altered.
C9_TimeZeroCleared ==
  pc \in AfterFixup =>
    \A r \in DOMAIN rssr : \A i \in Range(numrand) :
      IF HasAUC(surrprefix) /\ r = 0
      THEN rssr[r][i] = 0
      ELSE rssr[r][i] = slot[i].rssr[r]

\* C9 happens: an AUC run over two time points in which a trial other than trial 0
\* computed non-zero values at both.
C9_Witness ==
  /\ pc = "pvalue"
  /\ HasAUC(surrprefix)
  /\ \E i \in Range(numrand) : i # 0 /\ slot[i].rssr[0] > 0 /\ t = 2 /\ slot[i].rssr[1] > 0

AllZero(m) == \A r \in DOMAIN m : \A e \in DOMAIN m[r] : m[r][e] = 0

\* C10: with no candidate time point, event detection raises nothing after the cutoff:
\* the PeakSet is empty, the peak co-fluctuation array has no rows and, in AUC mode,
\* the thresholded edge matrix is all zero.
C10_NoCandidates ==
  (DOMAIN idx = {} /\ (pc \in AfterCutoff \/ (pc = "error" /\ DOMAIN p # {}))) =>
    /\ pc # "error"
    /\ pc \in AfterPeaks => DOMAIN idxpeak = {}
    /\ pc \in AfterActivity => DOMAIN etspeaks = {} /\ \A e \in DOMAIN mu : mu[e].den = 0
    /\ (pc \in AfterThreshold /\ HasAUC(surrprefix)) => AllZero(ets_thr)

\* C10 happens: a segmented AUC run with a non-zero edge series and no candidate has
\* returned.
C10_Witness ==
  /\ pc = "done"
  /\ DOMAIN idx = {}
  /\ segments
  /\ HasAUC(surrprefix)
  /\ ~AllZero(ets)
====
